---- MODULE Spec2Model ----
(***************************************************************************)
(* State-machine model of the two screens of samsung-health-companion:     *)
(*   - IndexView  (src/src/app/views/Index.tsx)                            *)
(*   - Page       (src/src/app/index.tsx)                                  *)
(* Both drive the platform health client through three asynchronous calls  *)
(* (initialize, requestPermission, readRecords).  A platform call that has  *)
(* been issued and has not settled yet is an entry of `pending`; the step   *)
(* that settles it runs the rest of the async function up to its next       *)
(* await (or to its end), as the JavaScript event loop does.                *)
(***************************************************************************)
EXTENDS Integers, Sequences, FiniteSets, TLC

(***************************************************************************)
(* Bounds of the model                                                     *)
(***************************************************************************)
MaxRecords == 2   \* longest record list a readRecords result carries
MaxGranted == 2   \* longest granted-permission list requestPermission returns
MaxPending == 2   \* most platform calls in flight together (programmatic use)
MaxAlerts  == 1   \* most alert dialogs open together
MaxSkew    == 1   \* most milliseconds the clock advances between two reads

(***************************************************************************)
(* Values                                                                  *)
(***************************************************************************)
Null      == "<null>"
Undefined == "<undefined>"
None      == <<>>            \* an absent (undefined) object-valued field
Some(x)   == <<x>>           \* a present object-valued field

Errors    == {"E1"}          \* what a platform call rejects with
TypeError == "TypeError"     \* what a property read of undefined throws

\* Time is counted in milliseconds since 2024-01-01T00:00:00.000Z.
MsPerDay  == 24 * 60 * 60 * 1000
Now0      == 7 * MsPerDay    \* 2024-01-08T00:00:00.000Z
SevenDays == 7 * 24 * 60 * 60 * 1000

\* Date.prototype.toISOString: the calendar fields of an instant (January 2024).
toISOString(t) ==
    [ year   |-> 2024, month |-> 1,
      day    |-> (t \div MsPerDay) + 1,
      hour   |-> (t % MsPerDay) \div 3600000,
      minute |-> (t % 3600000) \div 60000,
      second |-> (t % 60000) \div 1000,
      ms     |-> t % 1000 ]

\* The instant an ISO-8601 string of January 2024 denotes.
parseISO(s) ==
    (s.day - 1) * MsPerDay + s.hour * 3600000 + s.minute * 60000
        + s.second * 1000 + s.ms

NoFilter == [startTime |-> toISOString(0), endTime |-> toISOString(0)]

SeqsUpTo(S, n) == UNION { [1..k -> S] : k \in 0..n }

RemoveAt(s, i) == [j \in 1..(Len(s) - 1) |-> IF j < i THEN s[j] ELSE s[j + 1]]

ReplaceAt(s, i, x) == [s EXCEPT ![i] = x]

(***************************************************************************)
(* Platform data                                                           *)
(***************************************************************************)
ReadPermission == [accessType |-> "read", recordType |-> "ActiveCaloriesBurned"]

PermissionPool ==
    { ReadPermission,
      [accessType |-> "write", recordType |-> "ActiveCaloriesBurned"],
      [accessType |-> "read",  recordType |-> "Steps"] }

\* The platform's side of a grant: the list carries the read permission.
GrantsRead(granted) == ReadPermission \in { granted[k] : k \in 1..Len(granted) }

GrantedLists == SeqsUpTo(PermissionPool, MaxGranted)

\* Metadata of a record as the platform sends it; it carries more than the
\* three fields the screen keeps.
SourceMetadata(id) ==
    [ id |-> id, lastModifiedTime |-> "2024-01-07T10:00:00Z",
      dataOrigin |-> "com.sec.android.app.shealth", recordingMethod |-> 0 ]

SourceRecord(kcal, meta) ==
    [ startTime |-> "2024-01-07T09:00:00Z", endTime |-> "2024-01-07T10:00:00Z",
      energy |-> [inKilocalories |-> kcal, inKilojoules |-> kcal * 4],
      metadata |-> meta ]

RecordPool ==
    { SourceRecord(100, Some(SourceMetadata("id1"))),
      SourceRecord(200, Some(SourceMetadata(Null))),
      SourceRecord(300, Some(SourceMetadata(Undefined))),
      SourceRecord(400, None) }

\* What readRecords settles with: a rejection, or a result object whose
\* records field is a list or is absent.
ReadOutcomes ==
    [ settled : {"rejected"}, error : Errors, records : {None} ]
    \cup [ settled : {"resolved"}, error : {Null},
           records : {None} \cup { Some(l) : l \in SeqsUpTo(RecordPool, MaxRecords) } ]

PermissionOutcomes ==
    [ settled : {"rejected"}, error : Errors, granted : {<<>>} ]
    \cup [ settled : {"resolved"}, error : {Null}, granted : GrantedLists ]

InitializeOutcomes ==
    [ settled : {"rejected"}, error : Errors, value : {FALSE} ]
    \cup [ settled : {"resolved"}, error : {Null}, value : BOOLEAN ]

(***************************************************************************)
(* Pure functions of the screens                                           *)
(***************************************************************************)
\* HasCaloriePermission without the accessType test.
HasCaloriePermission_AnyAccess(grantedPermissions) ==
    \E k \in 1..Len(grantedPermissions) :
        grantedPermissions[k].recordType = "ActiveCaloriesBurned"

\* grantedPermissions.some(p => p.recordType === ... && p.accessType === 'read')
HasCaloriePermission(grantedPermissions) ==
    \E k \in 1..Len(grantedPermissions) :
        /\ grantedPermissions[k].recordType = "ActiveCaloriesBurned"
        /\ grantedPermissions[k].accessType = "read"

\* IdOrEmpty with `=== null ? "" : id` in place of `??`.
IdOrEmpty_NullOnly(id) == IF id = Null THEN "" ELSE id

\* record.metadata.id ?? ""
IdOrEmpty(id) == IF id \in {Null, Undefined} THEN "" ELSE id

\* { ...record, metadata: { id, lastModifiedTime, dataOrigin } }
NormalizeRecord(record) ==
    [ record EXCEPT !.metadata =
        [ id               |-> IdOrEmpty(record.metadata[1].id),
          lastModifiedTime |-> record.metadata[1].lastModifiedTime,
          dataOrigin       |-> record.metadata[1].dataOrigin ] ]

\* result.records || []
RecordsOrEmpty(records) == IF records = None THEN <<>> ELSE records[1]

\* Reading record.metadata.id throws when record.metadata is undefined.
NormalizeThrows(records) ==
    \E k \in 1..Len(RecordsOrEmpty(records)) : RecordsOrEmpty(records)[k].metadata = None

\* (result.records || []).map(record => ...)
NormalizeRecords(records) ==
    [ k \in 1..Len(RecordsOrEmpty(records)) |-> NormalizeRecord(RecordsOrEmpty(records)[k]) ]

\* The two clock reads of readSampleData: new Date() and then Date.now().
TimeRangeFilter(t1, t2) ==
    [ startTime |-> toISOString(t2 - SevenDays), endTime |-> toISOString(t1) ]

\* The instants at which a fetch may start.
ClockReadings == { Now0, Now0 + 12 * 60 * 60 * 1000 + 999 }

(***************************************************************************)
(* State                                                                   *)
(***************************************************************************)
VARIABLES
    \* IndexView: the five useState cells
    calorieData, isLoading, isInitialized, hasPermissions, initError,
    \* IndexView: its surroundings
    mounted,          \* the mount effect has run
    pending,          \* platform calls in flight, in the order they were issued
    alerts,           \* Alert dialogs open, the newest last
    view,             \* what the last render returned
    unhandled,        \* errors that escaped an operation
    initializedOnce,  \* some initialize call has returned true
    grantedOnce,      \* some requestPermission call has returned the read grant
    timeRangeFilter,  \* the filter of the latest readRecords call
    userActed,        \* a control was pressed or an operation was called directly
    readSettled,      \* what the readRecords call that settled in the last step handed over
    launchCalls,      \* platform calls issued before that, per call
    \* Page: its three useState cells and its surroundings
    page_calorieData, page_isLoading, page_isInitialized,
    page_pending, page_alerts, page_initializedOnce, page_grantedOnce,
    page_timeRangeFilter

ivars == << calorieData, isLoading, isInitialized, hasPermissions, initError,
            mounted, pending, alerts, view, unhandled, initializedOnce, grantedOnce,
            timeRangeFilter, userActed, launchCalls, readSettled >>

pvars == << page_calorieData, page_isLoading, page_isInitialized,
            page_pending, page_alerts, page_initializedOnce, page_grantedOnce,
            page_timeRangeFilter >>

vars == << ivars, pvars >>

NoError == <<>>      \* initError = null

InitFailedMessage ==
    << "Failed to initialize Health Connect. Make sure Samsung Health is installed." >>
InitializationError(e)    == << "Initialization error: ", e >>
PermissionCheckError(e)   == << "Permission check error: ", e >>
PermissionRequestError(e) == << "Permission request error: ", e >>

Call(op, call) == [op |-> op, call |-> call]

GuardAlert ==
    [ title |-> "Error",
      message |-> << "Please ensure Health Connect is initialized and permissions are granted." >>,
      buttons |-> << [text |-> "OK", onPress |-> Null] >> ]

ReadErrorAlert(e) ==
    [ title |-> "Error",
      message |-> << "Failed to read health data: ", e >>,
      buttons |-> << [text |-> "OK", onPress |-> Null] >> ]

DenialDialog ==
    [ title |-> "Permissions Required",
      message |-> << "Please grant access to Active Calories Burned data in Samsung Health to use this feature." >>,
      buttons |-> << [text |-> "Cancel", onPress |-> Null],
                     [text |-> "Try Again", onPress |-> "requestPermissions"] >> ]

PageInitFailedAlert ==
    [ title |-> "Error",
      message |-> << "Failed to initialize Health Connect" >>,
      buttons |-> << [text |-> "OK", onPress |-> Null] >> ]

\* Catches with checkPermissions lacking its own try/catch.
Catches_OuterOnly(op) ==
    op \in {"initializeHealthConnect", "requestPermissions", "readSampleData"}

\* Whether the await of operation `op` sits inside a try block with a catch.
Catches(op) ==
    op \in {"initializeHealthConnect", "checkPermissions", "requestPermissions",
            "readSampleData"}

(***************************************************************************)
(* IndexView: render                                                       *)
(***************************************************************************)
Cards(data) ==
    [ k \in 1..Len(data) |->
        [ key |-> data[k].metadata.id, index |-> k,
          kcal |-> data[k].energy.inKilocalories,
          source |-> data[k].metadata.dataOrigin ] ]

\* SetupButtons that never moves on to the Grant Permissions button.
SetupButtons_InitializeOnly(init, perm, loading) ==
    << [ label |-> IF loading THEN "Initializing..." ELSE "Initialize Health Connect",
         onPress |-> "initializeHealthConnect", disabled |-> loading ] >>

\* SetupButtons that asks for the permission before the initialization.
SetupButtons_PermissionsFirst(init, perm, loading) ==
    IF ~perm
    THEN << [ label |-> IF loading THEN "Requesting..." ELSE "Grant Permissions",
              onPress |-> "requestPermissions", disabled |-> loading ] >>
    ELSE IF ~init
    THEN << [ label |-> IF loading THEN "Initializing..." ELSE "Initialize Health Connect",
              onPress |-> "initializeHealthConnect", disabled |-> loading ] >>
    ELSE << >>

SetupButtons(init, perm, loading) ==
    IF ~init
    THEN << [ label |-> IF loading THEN "Initializing..." ELSE "Initialize Health Connect",
              onPress |-> "initializeHealthConnect", disabled |-> loading ] >>
    ELSE IF ~perm
    THEN << [ label |-> IF loading THEN "Requesting..." ELSE "Grant Permissions",
              onPress |-> "requestPermissions", disabled |-> loading ] >>
    ELSE << >>

\* Render that selects the mode by isInitialized alone.
Render_ReadyWhenInitialized(init, perm, loading, err, data) ==
    IF ~init
    THEN [ mode |-> "Setup", errorBox |-> err, marks |-> << init, perm >>,
           buttons |-> SetupButtons(init, perm, loading),
           emptyNotice |-> FALSE, cards |-> << >> ]
    ELSE [ mode |-> "Ready", errorBox |-> NoError, marks |-> << init, perm >>,
           buttons |-> << [ label |-> IF loading THEN "Loading..." ELSE "Refresh Data",
                            onPress |-> "readSampleData", disabled |-> loading ] >>,
           emptyNotice |-> (Len(data) = 0 /\ ~loading),
           cards |-> Cards(data) ]

Render(init, perm, loading, err, data) ==
    IF ~init \/ ~perm
    THEN [ mode |-> "Setup",
           errorBox |-> err,
           marks |-> << init, perm >>,
           buttons |-> SetupButtons(init, perm, loading),
           emptyNotice |-> FALSE,
           cards |-> << >> ]
    ELSE [ mode |-> "Ready",
           errorBox |-> NoError,
           marks |-> << init, perm >>,
           buttons |-> << [ label |-> IF loading THEN "Loading..." ELSE "Refresh Data",
                            onPress |-> "readSampleData", disabled |-> loading ] >>,
           emptyNotice |-> (Len(data) = 0 /\ ~loading),
           cards |-> Cards(data) ]

\* React renders again after the state cells were set.
Rerender ==
    view' = Render(isInitialized', hasPermissions', isLoading', initError', calorieData')

\* Pressable with the buttons lacking `disabled={isLoading}`.
Pressable_IgnoresDisabled(h) ==
    /\ mounted
    /\ alerts = << >>
    /\ \E k \in 1..Len(view.buttons) : view.buttons[k].onPress = h

\* Pressable with dialogs that leave the buttons behind them in reach.
Pressable_UnderDialogs(h) ==
    /\ mounted
    /\ \E k \in 1..Len(view.buttons) :
          view.buttons[k].onPress = h /\ ~view.buttons[k].disabled

\* A button bound to handler h is on screen, enabled, and no dialog covers it.
Pressable(h) ==
    /\ mounted
    /\ alerts = << >>
    /\ \E k \in 1..Len(view.buttons) :
          view.buttons[k].onPress = h /\ ~view.buttons[k].disabled

\* The platform calls a step issues: a call that joins those in flight, or
\* takes the place of the one that settled.
IssuedCalls ==
    IF Len(pending') > Len(pending)
    THEN { pending'[Len(pending')].call }
    ELSE IF Len(pending') = Len(pending)
    THEN { pending'[k].call : k \in { j \in 1..Len(pending) : pending'[j] # pending[j] } }
    ELSE { }

\* Book-keeping of the launch: `user` tells a step taken by the user (or by a
\* direct caller) from one the screen takes by itself.
\* A readRecords outcome that reaches setCalorieData: the call resolved and
\* every record of its result has a metadata object to read (lines 130-147).
ReadSucceeds(o) ==
    /\ o.settled = "resolved"
    /\ o.records # None =>
          \A k \in 1..Len(o.records[1]) : o.records[1][k].metadata # None

\* readSettled: no read settled in the step, or one did and handed over a
\* result, or one did and failed (rejected, or its records could not be mapped).
NotSettled == [ kind |-> "none" ]
Handed(o) ==
    IF ReadSucceeds(o) THEN [ kind |-> "succeeded", records |-> o.records ]
    ELSE [ kind |-> "failed" ]
Settling(x) == readSettled' = x

Launch(user) ==
    /\ userActed' = (userActed \/ user)
    /\ launchCalls' =
          IF userActed \/ user
          THEN launchCalls
          ELSE [ c \in DOMAIN launchCalls |->
                   launchCalls[c] + IF c \in IssuedCalls THEN 1 ELSE 0 ]

Init ==
    /\ calorieData = << >>
    /\ isLoading = FALSE
    /\ isInitialized = FALSE
    /\ hasPermissions = FALSE
    /\ initError = NoError
    /\ mounted = FALSE
    /\ pending = << >>
    /\ alerts = << >>
    /\ view = Render(FALSE, FALSE, FALSE, NoError, << >>)
    /\ unhandled = {}
    /\ initializedOnce = FALSE
    /\ grantedOnce = FALSE
    /\ timeRangeFilter = NoFilter
    /\ userActed = FALSE
    /\ readSettled = NotSettled
    /\ launchCalls = [initialize |-> 0, requestPermission |-> 0, readRecords |-> 0]
    /\ page_calorieData = << >>
    /\ page_isLoading = FALSE
    /\ page_isInitialized = FALSE
    /\ page_pending = << >>
    /\ page_alerts = << >>
    /\ page_initializedOnce = FALSE
    /\ page_grantedOnce = FALSE
    /\ page_timeRangeFilter = NoFilter

(***************************************************************************)
(* IndexView: the operations                                               *)
(***************************************************************************)
\* initializeHealthConnect up to its first await (lines 43-48).
initializeHealthConnect ==
    /\ Len(pending) < MaxPending
    /\ isLoading' = TRUE
    /\ initError' = NoError
    /\ pending' = Append(pending, Call("initializeHealthConnect", "initialize"))
    /\ UNCHANGED << timeRangeFilter, calorieData, isInitialized, hasPermissions, alerts, unhandled,
                    initializedOnce, grantedOnce >>

\* initializeResumed without the `return` after a false result.
initializeResumed_NoReturn(i, o) ==
    /\ pending[i].op = "initializeHealthConnect"
    /\ pending[i].call = "initialize"
    /\ IF o.settled = "resolved"
       THEN /\ isInitialized' = o.value
            /\ initializedOnce' = (initializedOnce \/ o.value)
            /\ initError' = IF o.value THEN initError ELSE InitFailedMessage
            /\ pending' = ReplaceAt(pending, i, Call("checkPermissions", "requestPermission"))
            /\ UNCHANGED << isLoading, unhandled >>
       ELSE /\ initError' = InitializationError(o.error)
            /\ isLoading' = FALSE
            /\ pending' = RemoveAt(pending, i)
            /\ UNCHANGED << isInitialized, initializedOnce, unhandled >>
    /\ UNCHANGED << timeRangeFilter, calorieData, hasPermissions, alerts, grantedOnce >>

\* initializeResumed that clears isLoading before it calls checkPermissions.
initializeResumed_LoadingEndsEarly(i, o) ==
    /\ pending[i].op = "initializeHealthConnect"
    /\ pending[i].call = "initialize"
    /\ IF o.settled = "resolved" /\ o.value
       THEN /\ isInitialized' = TRUE
            /\ initializedOnce' = TRUE
            /\ pending' = ReplaceAt(pending, i, Call("checkPermissions", "requestPermission"))
            /\ UNCHANGED initError
       ELSE IF o.settled = "resolved"
       THEN /\ isInitialized' = FALSE
            /\ initError' = InitFailedMessage
            /\ pending' = RemoveAt(pending, i)
            /\ UNCHANGED initializedOnce
       ELSE /\ initError' = InitializationError(o.error)
            /\ pending' = RemoveAt(pending, i)
            /\ UNCHANGED << isInitialized, initializedOnce >>
    /\ isLoading' = FALSE
    /\ UNCHANGED << timeRangeFilter, calorieData, hasPermissions, alerts, grantedOnce,
                    unhandled >>

\* initializeHealthConnect from `await initialize(...)` on: either it reaches
\* the await inside checkPermissions, or it ends through catch/finally.
initializeResumed(i, o) ==
    /\ pending[i].op = "initializeHealthConnect"
    /\ pending[i].call = "initialize"
    /\ IF o.settled = "resolved" /\ o.value
       THEN /\ isInitialized' = TRUE
            /\ initializedOnce' = TRUE
            /\ pending' = ReplaceAt(pending, i,
                              Call("checkPermissions", "requestPermission"))
            /\ UNCHANGED << isLoading, initError, unhandled >>
       ELSE IF o.settled = "resolved"
       THEN /\ isInitialized' = FALSE
            /\ initError' = InitFailedMessage
            /\ isLoading' = FALSE
            /\ pending' = RemoveAt(pending, i)
            /\ UNCHANGED << initializedOnce, unhandled >>
       ELSE /\ IF Catches("initializeHealthConnect")
               THEN initError' = InitializationError(o.error) /\ UNCHANGED unhandled
               ELSE unhandled' = unhandled \cup {o.error} /\ UNCHANGED initError
            /\ isLoading' = FALSE
            /\ pending' = RemoveAt(pending, i)
            /\ UNCHANGED << isInitialized, initializedOnce >>
    /\ UNCHANGED << timeRangeFilter, calorieData, hasPermissions, alerts, grantedOnce >>

\* checkPermissionsResumed with initializeHealthConnect lacking its finally.
checkPermissionsResumed_NoFinally(i, o) ==
    /\ pending[i].op = "checkPermissions"
    /\ pending[i].call = "requestPermission"
    /\ IF o.settled = "resolved"
       THEN /\ hasPermissions' = HasCaloriePermission(o.granted)
            /\ grantedOnce' = (grantedOnce \/ GrantsRead(o.granted))
            /\ UNCHANGED initError
       ELSE /\ initError' = PermissionCheckError(o.error)
            /\ UNCHANGED << hasPermissions, grantedOnce >>
    /\ pending' = RemoveAt(pending, i)
    /\ UNCHANGED << timeRangeFilter, calorieData, isInitialized, alerts, initializedOnce,
                    isLoading, unhandled >>

\* checkPermissions from its await on, then the finally of initializeHealthConnect.
checkPermissionsResumed(i, o) ==
    /\ pending[i].op = "checkPermissions"
    /\ pending[i].call = "requestPermission"
    /\ IF o.settled = "resolved"
       THEN /\ hasPermissions' = HasCaloriePermission(o.granted)
            /\ grantedOnce' = (grantedOnce \/ GrantsRead(o.granted))
            /\ UNCHANGED << initError, unhandled >>
       ELSE /\ IF Catches("checkPermissions")
               THEN initError' = PermissionCheckError(o.error) /\ UNCHANGED unhandled
               ELSE IF Catches("initializeHealthConnect")
               THEN initError' = InitializationError(o.error) /\ UNCHANGED unhandled
               ELSE unhandled' = unhandled \cup {o.error} /\ UNCHANGED initError
            /\ UNCHANGED << hasPermissions, grantedOnce >>
    /\ isLoading' = FALSE
    /\ pending' = RemoveAt(pending, i)
    /\ UNCHANGED << timeRangeFilter, calorieData, isInitialized, alerts, initializedOnce >>

\* requestPermissions up to its await (lines 85-91); `open` are the dialogs
\* left open when it starts.
requestPermissionsFrom(open) ==
    /\ Len(pending) < MaxPending
    /\ isLoading' = TRUE
    /\ initError' = NoError
    /\ pending' = Append(pending, Call("requestPermissions", "requestPermission"))
    /\ alerts' = open
    /\ UNCHANGED << timeRangeFilter, calorieData, isInitialized, hasPermissions, unhandled,
                    initializedOnce, grantedOnce >>

requestPermissions == requestPermissionsFrom(alerts)

\* requestPermissionsResumed that opens the dialog whatever the result.
requestPermissionsResumed_DialogAlways(i, o) ==
    /\ pending[i].op = "requestPermissions"
    /\ pending[i].call = "requestPermission"
    /\ IF o.settled = "resolved"
       THEN /\ hasPermissions' = HasCaloriePermission(o.granted)
            /\ grantedOnce' = (grantedOnce \/ GrantsRead(o.granted))
            /\ Len(alerts) < MaxAlerts
            /\ alerts' = Append(alerts, DenialDialog)
            /\ UNCHANGED << initError, unhandled >>
       ELSE /\ initError' = PermissionRequestError(o.error)
            /\ UNCHANGED << hasPermissions, grantedOnce, alerts, unhandled >>
    /\ isLoading' = FALSE
    /\ pending' = RemoveAt(pending, i)
    /\ UNCHANGED << timeRangeFilter, calorieData, isInitialized, initializedOnce >>

\* requestPermissions from its await on (lines 93-114).
requestPermissionsResumed(i, o) ==
    /\ pending[i].op = "requestPermissions"
    /\ pending[i].call = "requestPermission"
    /\ IF o.settled = "resolved"
       THEN /\ hasPermissions' = HasCaloriePermission(o.granted)
            /\ grantedOnce' = (grantedOnce \/ GrantsRead(o.granted))
            /\ IF ~HasCaloriePermission(o.granted)
               THEN Len(alerts) < MaxAlerts /\ alerts' = Append(alerts, DenialDialog)
               ELSE UNCHANGED alerts
            /\ UNCHANGED << initError, unhandled >>
       ELSE /\ IF Catches("requestPermissions")
               THEN initError' = PermissionRequestError(o.error) /\ UNCHANGED unhandled
               ELSE unhandled' = unhandled \cup {o.error} /\ UNCHANGED initError
            /\ UNCHANGED << hasPermissions, grantedOnce, alerts >>
    /\ isLoading' = FALSE
    /\ pending' = RemoveAt(pending, i)
    /\ UNCHANGED << timeRangeFilter, calorieData, isInitialized, initializedOnce >>

\* readSampleData with `&&` in place of `||` in its guard.
readSampleData_GuardNeedsBoth(t1, t2) ==
    /\ IF ~isInitialized /\ ~hasPermissions
       THEN /\ Len(alerts) < MaxAlerts
            /\ alerts' = Append(alerts, GuardAlert)
            /\ UNCHANGED << isLoading, pending, timeRangeFilter >>
       ELSE /\ Len(pending) < MaxPending
            /\ isLoading' = TRUE
            /\ pending' = Append(pending, Call("readSampleData", "readRecords"))
            /\ timeRangeFilter' = TimeRangeFilter(t1, t2)
            /\ UNCHANGED alerts
    /\ UNCHANGED << calorieData, isInitialized, hasPermissions, initError, unhandled,
                    initializedOnce, grantedOnce >>

\* readSampleData that empties the list when a fetch starts.
readSampleData_ClearsOnStart(t1, t2) ==
    /\ IF ~isInitialized \/ ~hasPermissions
       THEN /\ Len(alerts) < MaxAlerts
            /\ alerts' = Append(alerts, GuardAlert)
            /\ UNCHANGED << isLoading, pending, timeRangeFilter, calorieData >>
       ELSE /\ Len(pending) < MaxPending
            /\ isLoading' = TRUE
            /\ calorieData' = << >>
            /\ pending' = Append(pending, Call("readSampleData", "readRecords"))
            /\ timeRangeFilter' = TimeRangeFilter(t1, t2)
            /\ UNCHANGED alerts
    /\ UNCHANGED << isInitialized, hasPermissions, initError, unhandled,
                    initializedOnce, grantedOnce >>

\* readSampleData up to its await (lines 118-136); t1 and t2 are what the
\* clock shows at `new Date()` and at `Date.now()`.
readSampleData(t1, t2) ==
    /\ IF ~isInitialized \/ ~hasPermissions
       THEN /\ Len(alerts) < MaxAlerts
            /\ alerts' = Append(alerts, GuardAlert)
            /\ UNCHANGED << isLoading, pending, timeRangeFilter >>
       ELSE /\ Len(pending) < MaxPending
            /\ isLoading' = TRUE
            /\ pending' = Append(pending, Call("readSampleData", "readRecords"))
            /\ timeRangeFilter' = TimeRangeFilter(t1, t2)
            /\ UNCHANGED alerts
    /\ UNCHANGED << calorieData, isInitialized, hasPermissions, initError, unhandled,
                    initializedOnce, grantedOnce >>

\* readSampleDataResumed whose catch also empties the list.
readSampleDataResumed_ClearsOnError(i, o) ==
    /\ pending[i].op = "readSampleData"
    /\ pending[i].call = "readRecords"
    /\ IF o.settled = "resolved" /\ ~NormalizeThrows(o.records)
       THEN /\ calorieData' = NormalizeRecords(o.records)
            /\ UNCHANGED << alerts, unhandled >>
       ELSE /\ Len(alerts) < MaxAlerts
            /\ alerts' = Append(alerts,
                  ReadErrorAlert(IF o.settled = "rejected" THEN o.error ELSE TypeError))
            /\ calorieData' = << >>
            /\ UNCHANGED unhandled
    /\ isLoading' = FALSE
    /\ pending' = RemoveAt(pending, i)
    /\ UNCHANGED << timeRangeFilter, isInitialized, hasPermissions, initError,
                    initializedOnce, grantedOnce >>

\* readSampleDataResumed that drops the result of a fetch that is not the
\* one started last.
readSampleDataResumed_LatestOnly(i, o) ==
    /\ pending[i].op = "readSampleData"
    /\ pending[i].call = "readRecords"
    /\ IF o.settled = "resolved" /\ ~NormalizeThrows(o.records)
       THEN /\ calorieData' = IF i = Len(pending) THEN NormalizeRecords(o.records)
                                                  ELSE calorieData
            /\ UNCHANGED << alerts, unhandled >>
       ELSE /\ Len(alerts) < MaxAlerts
            /\ alerts' = Append(alerts,
                  ReadErrorAlert(IF o.settled = "rejected" THEN o.error ELSE TypeError))
            /\ UNCHANGED << calorieData, unhandled >>
    /\ isLoading' = FALSE
    /\ pending' = RemoveAt(pending, i)
    /\ UNCHANGED << timeRangeFilter, isInitialized, hasPermissions, initError,
                    initializedOnce, grantedOnce >>

\* readSampleData from its await on (lines 138-152).
readSampleDataResumed(i, o) ==
    /\ pending[i].op = "readSampleData"
    /\ pending[i].call = "readRecords"
    /\ IF o.settled = "resolved" /\ ~NormalizeThrows(o.records)
       THEN /\ calorieData' = NormalizeRecords(o.records)
            /\ UNCHANGED << alerts, unhandled >>
       ELSE /\ IF Catches("readSampleData")
               THEN /\ Len(alerts) < MaxAlerts
                    /\ alerts' = Append(alerts,
                          ReadErrorAlert(IF o.settled = "rejected" THEN o.error ELSE TypeError))
                    /\ UNCHANGED unhandled
               ELSE /\ unhandled' = unhandled \cup
                          {IF o.settled = "rejected" THEN o.error ELSE TypeError}
                    /\ UNCHANGED alerts
            /\ UNCHANGED calorieData
    /\ isLoading' = FALSE
    /\ pending' = RemoveAt(pending, i)
    /\ UNCHANGED << timeRangeFilter, isInitialized, hasPermissions, initError,
                    initializedOnce, grantedOnce >>

(***************************************************************************)
(* IndexView: what triggers the operations                                 *)
(***************************************************************************)
\* Mount with the effect lacking its empty dependency list: it runs after
\* every render.
Mount_AfterEveryRender ==
    /\ mounted' = TRUE
    /\ initializeHealthConnect
    /\ Rerender
    /\ Launch(FALSE)
    /\ Settling(NotSettled)
    /\ UNCHANGED pvars

\* useEffect(() => { initializeHealthConnect(); }, [])
Mount ==
    /\ ~mounted
    /\ mounted' = TRUE
    /\ initializeHealthConnect
    /\ Rerender
    /\ Launch(FALSE)
    /\ Settling(NotSettled)
    /\ UNCHANGED pvars

PressInitialize ==
    /\ Pressable("initializeHealthConnect")
    /\ initializeHealthConnect
    /\ Rerender
    /\ Launch(TRUE)
    /\ Settling(NotSettled)
    /\ UNCHANGED << mounted, pvars >>

PressGrantPermissions ==
    /\ Pressable("requestPermissions")
    /\ requestPermissions
    /\ Rerender
    /\ Launch(TRUE)
    /\ Settling(NotSettled)
    /\ UNCHANGED << mounted, pvars >>

PressRefresh ==
    /\ Pressable("readSampleData")
    /\ \E t1 \in ClockReadings : \E t2 \in t1 .. (t1 + MaxSkew) : readSampleData(t1, t2)
    /\ Rerender
    /\ Launch(TRUE)
    /\ Settling(NotSettled)
    /\ UNCHANGED << mounted, pvars >>

\* The top dialog's button without a handler (OK, Cancel) is pressed.
DismissAlert ==
    /\ alerts # << >>
    /\ alerts' = SubSeq(alerts, 1, Len(alerts) - 1)
    /\ UNCHANGED << timeRangeFilter, calorieData, isLoading, isInitialized, hasPermissions, initError,
                    mounted, pending, view, unhandled, initializedOnce, grantedOnce, pvars >>
    /\ Launch(TRUE)
    /\ Settling(NotSettled)

\* The denial dialog's Try Again is pressed: the dialog closes and its
\* onPress, requestPermissions, runs.
PressTryAgain ==
    /\ alerts # << >>
    /\ \E b \in 1..Len(alerts[Len(alerts)].buttons) :
          alerts[Len(alerts)].buttons[b].onPress = "requestPermissions"
    /\ requestPermissionsFrom(SubSeq(alerts, 1, Len(alerts) - 1))
    /\ Rerender
    /\ Launch(TRUE)
    /\ Settling(NotSettled)
    /\ UNCHANGED << mounted, pvars >>

\* The platform settles a call and the awaiting operation runs on.
InitializeSettles ==
    \E i \in 1..Len(pending) : \E o \in InitializeOutcomes :
        /\ initializeResumed(i, o)
        /\ Rerender
        /\ Launch(FALSE)
        /\ Settling(NotSettled)
        /\ UNCHANGED << mounted, pvars >>

CheckPermissionsSettles ==
    \E i \in 1..Len(pending) : \E o \in PermissionOutcomes :
        /\ checkPermissionsResumed(i, o)
        /\ Rerender
        /\ Launch(FALSE)
        /\ Settling(NotSettled)
        /\ UNCHANGED << mounted, pvars >>

RequestPermissionsSettles ==
    \E i \in 1..Len(pending) : \E o \in PermissionOutcomes :
        /\ requestPermissionsResumed(i, o)
        /\ Rerender
        /\ Launch(FALSE)
        /\ Settling(NotSettled)
        /\ UNCHANGED << mounted, pvars >>

ReadRecordsSettles ==
    \E i \in 1..Len(pending) : \E o \in ReadOutcomes :
        /\ readSampleDataResumed(i, o)
        /\ Rerender
        /\ Launch(FALSE)
        /\ Settling(Handed(o))
        /\ UNCHANGED << mounted, pvars >>

\* The operations invoked by a caller other than the screen's controls.
CallReadSampleData ==
    /\ mounted
    /\ \E t1 \in ClockReadings : \E t2 \in t1 .. (t1 + MaxSkew) : readSampleData(t1, t2)
    /\ Rerender
    /\ Launch(TRUE)
    /\ Settling(NotSettled)
    /\ UNCHANGED << mounted, pvars >>

Next ==
    \/ Mount
    \/ PressInitialize
    \/ PressGrantPermissions
    \/ PressRefresh
    \/ PressTryAgain
    \/ DismissAlert
    \/ InitializeSettles
    \/ CheckPermissionsSettles
    \/ RequestPermissionsSettles
    \/ ReadRecordsSettles

Spec == Init /\ [][Next]_vars

\* A platform call in flight settles in the end: the platform resolves or
\* rejects every promise it hands out.
SpecFair ==
    /\ Spec
    /\ WF_vars(InitializeSettles)
    /\ WF_vars(CheckPermissionsSettles)
    /\ WF_vars(RequestPermissionsSettles)
    /\ WF_vars(ReadRecordsSettles)

NextProg ==
    \/ Next
    \/ CallReadSampleData

SpecProg == Init /\ [][NextProg]_vars

(***************************************************************************)
(* Page (src/src/app/index.tsx): one operation, readSampleData, bound to   *)
(* the Refresh Data button, which is disabled while isLoading.             *)
(***************************************************************************)
\* readSampleData of Page up to `await initialize()` (lines 33-37).
PagePressRefresh ==
    /\ ~page_isLoading
    /\ page_alerts = << >>
    /\ page_isLoading' = TRUE
    /\ page_pending' = Append(page_pending, Call("readSampleData", "initialize"))
    /\ UNCHANGED << page_timeRangeFilter, page_calorieData, page_isInitialized, page_alerts,
                    page_initializedOnce, page_grantedOnce, ivars >>

\* From `await initialize()` to `await requestPermission(...)` (lines 37-48).
PageInitializeSettles ==
    \E i \in 1..Len(page_pending) : \E o \in InitializeOutcomes :
        /\ page_pending[i].call = "initialize"
        /\ IF o.settled = "resolved" /\ o.value
           THEN /\ page_isInitialized' = TRUE
                /\ page_initializedOnce' = TRUE
                /\ page_pending' = ReplaceAt(page_pending, i,
                                      Call("readSampleData", "requestPermission"))
                /\ UNCHANGED << page_isLoading, page_alerts >>
           ELSE IF o.settled = "resolved"
           THEN /\ page_isInitialized' = FALSE
                /\ page_alerts' = Append(page_alerts, PageInitFailedAlert)
                /\ page_isLoading' = FALSE
                /\ page_pending' = RemoveAt(page_pending, i)
                /\ UNCHANGED page_initializedOnce
           ELSE /\ page_alerts' = Append(page_alerts, ReadErrorAlert(o.error))
                /\ page_isLoading' = FALSE
                /\ page_pending' = RemoveAt(page_pending, i)
                /\ UNCHANGED << page_isInitialized, page_initializedOnce >>
        /\ UNCHANGED << page_timeRangeFilter, page_calorieData, page_grantedOnce, ivars >>

\* From `await requestPermission(...)` to `await readRecords(...)` (lines
\* 46-60): grantedPermissions is not looked at.
PageRequestPermissionSettles ==
    \E i \in 1..Len(page_pending) : \E o \in PermissionOutcomes :
        /\ page_pending[i].call = "requestPermission"
        /\ IF o.settled = "resolved"
           THEN /\ page_pending' = ReplaceAt(page_pending, i,
                                      Call("readSampleData", "readRecords"))
                /\ \E t1 \in ClockReadings : \E t2 \in t1 .. (t1 + MaxSkew) :
                      page_timeRangeFilter' = TimeRangeFilter(t1, t2)
                /\ page_grantedOnce' = (page_grantedOnce \/ GrantsRead(o.granted))
                /\ UNCHANGED << page_isLoading, page_alerts >>
           ELSE /\ page_alerts' = Append(page_alerts, ReadErrorAlert(o.error))
                /\ page_isLoading' = FALSE
                /\ page_pending' = RemoveAt(page_pending, i)
                /\ UNCHANGED << page_grantedOnce, page_timeRangeFilter >>
        /\ UNCHANGED << page_calorieData, page_isInitialized, page_initializedOnce, ivars >>

\* From `await readRecords(...)` to the end (lines 54-76).
PageReadRecordsSettles ==
    \E i \in 1..Len(page_pending) : \E o \in ReadOutcomes :
        /\ page_pending[i].call = "readRecords"
        /\ IF o.settled = "resolved" /\ ~NormalizeThrows(o.records)
           THEN /\ page_calorieData' = NormalizeRecords(o.records)
                /\ UNCHANGED page_alerts
           ELSE /\ page_alerts' = Append(page_alerts,
                      ReadErrorAlert(IF o.settled = "rejected" THEN o.error ELSE TypeError))
                /\ UNCHANGED page_calorieData
        /\ page_isLoading' = FALSE
        /\ page_pending' = RemoveAt(page_pending, i)
        /\ UNCHANGED << page_timeRangeFilter, page_isInitialized, page_initializedOnce, page_grantedOnce, ivars >>

PageDismissAlert ==
    /\ page_alerts # << >>
    /\ page_alerts' = SubSeq(page_alerts, 1, Len(page_alerts) - 1)
    /\ UNCHANGED << page_timeRangeFilter, page_calorieData, page_isLoading, page_isInitialized, page_pending,
                    page_initializedOnce, page_grantedOnce, ivars >>

NextPage ==
    \/ PagePressRefresh
    \/ PageInitializeSettles
    \/ PageRequestPermissionSettles
    \/ PageReadRecordsSettles
    \/ PageDismissAlert

SpecPage == Init /\ [][NextPage]_vars

(***************************************************************************)
(* Properties                                                              *)
(***************************************************************************)
Top(s) == s[Len(s)]

\* C1: whenever a requestPermission call of checkPermissions or of
\* requestPermissions returns a granted list, hasPermissions is afterwards
\* true exactly if the list holds the entry (read, ActiveCaloriesBurned).
C1_HasPermissionsIffGranted ==
    [][ \A i \in 1..Len(pending) : \A o \in PermissionOutcomes :
          ( /\ o.settled = "resolved"
            /\ checkPermissionsResumed(i, o) \/ requestPermissionsResumed(i, o) )
          => (hasPermissions' <=> GrantsRead(o.granted)) ]_vars

\* A grant has been recorded while the list that granted it held the read entry.
C1_Witness ==
    /\ hasPermissions
    /\ grantedOnce
    /\ pending = << >>

\* C2: readSampleData invoked while isInitialized or hasPermissions is false
\* issues no readRecords call, opens the guard alert and leaves isLoading alone.
C2_GuardRejectsFetch ==
    [][ \A t1 \in ClockReadings : \A t2 \in t1 .. (t1 + MaxSkew) :
          ( (~isInitialized \/ ~hasPermissions) /\ readSampleData(t1, t2) )
          => /\ pending' = pending
             /\ alerts' = Append(alerts, GuardAlert)
             /\ isLoading' = isLoading ]_vars

\* The guard alert is open on a screen that lacks the permission.
C2_Witness ==
    /\ alerts # << >>
    /\ Top(alerts) = GuardAlert
    /\ isInitialized
    /\ ~hasPermissions
    /\ pending = << >>

\* C3: on either screen a readRecords call is in flight only after initialize
\* returned true and a requestPermission call returned the read grant.
C3_ReadOnlyAfterInitAndGrant ==
    /\ \A i \in 1..Len(pending) :
          pending[i].call = "readRecords" => (initializedOnce /\ grantedOnce)
    /\ \A i \in 1..Len(page_pending) :
          page_pending[i].call = "readRecords"
              => (page_initializedOnce /\ page_grantedOnce)

\* C4: when initialize returns false, initializeHealthConnect ends with
\* isInitialized false, a message in initError and isLoading false, issues no
\* requestPermission call, and the one button on screen is an enabled
\* Initialize button bound to initializeHealthConnect.
C4_InitializeFalseEndsInInitFailed ==
    [][ \A i \in 1..Len(pending) : \A o \in InitializeOutcomes :
          ( o.settled = "resolved" /\ ~o.value /\ initializeResumed(i, o) )
          => /\ ~isInitialized'
             /\ initError' # NoError
             /\ ~isLoading'
             /\ pending' = RemoveAt(pending, i)
             /\ \A j \in 1..Len(pending') : pending'[j].call # "requestPermission"
             /\ view'.mode = "Setup"
             /\ view'.errorBox = initError'
             /\ Len(view'.buttons) = 1
             /\ view'.buttons[1].onPress = "initializeHealthConnect"
             /\ ~view'.buttons[1].disabled ]_vars

\* The screen rests in InitFailed.
C4_Witness ==
    /\ initError = InitFailedMessage
    /\ ~isInitialized
    /\ ~isLoading
    /\ pending = << >>

\* C5: when the client is initialized and a permission result comes back
\* without the read grant, the screen stays in Setup mode and its one button
\* is Grant Permissions, bound to requestPermissions.
C5_DeniedShowsGrantPermissions ==
    [][ \A i \in 1..Len(pending) : \A o \in PermissionOutcomes :
          ( /\ isInitialized
            /\ o.settled = "resolved"
            /\ ~GrantsRead(o.granted)
            /\ checkPermissionsResumed(i, o) \/ requestPermissionsResumed(i, o) )
          => /\ view'.mode = "Setup"
             /\ Len(view'.buttons) = 1
             /\ view'.buttons[1].onPress = "requestPermissions"
             /\ view'.buttons[1].label = "Grant Permissions" ]_vars

\* Initialized, denied, and the Grant Permissions button is on screen.
C5_Witness ==
    /\ isInitialized
    /\ ~hasPermissions
    /\ ~isLoading
    /\ alerts # << >>
    /\ Top(alerts) = DenialDialog

\* C6: when readRecords rejects or the normalization throws, calorieData is
\* left as it was, an alert carrying the raw error opens and isLoading ends
\* false.
C6_FailedFetchKeepsList ==
    [][ \A i \in 1..Len(pending) : \A o \in ReadOutcomes :
          ( /\ readSampleDataResumed(i, o)
            /\ \/ o.settled = "rejected"
               \/ \E k \in 1..Len(RecordsOrEmpty(o.records)) :
                     RecordsOrEmpty(o.records)[k].metadata = None )
          => /\ calorieData' = calorieData
             /\ alerts' = Append(alerts,
                   ReadErrorAlert(IF o.settled = "rejected" THEN o.error ELSE TypeError))
             /\ ~isLoading' ]_vars

\* A fetch has failed on a screen that still shows an earlier list.
C6_Witness ==
    /\ calorieData # << >>
    /\ alerts # << >>
    /\ Top(alerts).message[1] = "Failed to read health data: "
    /\ ~isLoading

\* C7: a successful read of N well-formed records replaces calorieData by
\* those N records in the platform's order, metadata.id being the source id,
\* or "" when the source id is null or absent; an absent records field gives
\* the empty list.
C7_SuccessfulFetchReplacesList ==
    [][ \A i \in 1..Len(pending) : \A o \in ReadOutcomes :
          ( /\ readSampleDataResumed(i, o)
            /\ o.settled = "resolved"
            /\ o.records # None => \A k \in 1..Len(o.records[1]) :
                                      o.records[1][k].metadata # None )
          => /\ o.records = None => calorieData' = << >>
             /\ o.records # None =>
                  /\ Len(calorieData') = Len(o.records[1])
                  /\ \A k \in 1..Len(o.records[1]) :
                       LET src == o.records[1][k]
                           got == calorieData'[k]
                       IN /\ got.startTime = src.startTime
                          /\ got.endTime = src.endTime
                          /\ got.energy = src.energy
                          /\ got.metadata.lastModifiedTime = src.metadata[1].lastModifiedTime
                          /\ got.metadata.dataOrigin = src.metadata[1].dataOrigin
                          /\ got.metadata.id =
                                IF src.metadata[1].id \in {Null, Undefined}
                                THEN "" ELSE src.metadata[1].id ]_vars

\* Two records are listed in the platform's order, the second with a
\* defaulted id.
C7_Witness ==
    /\ Len(calorieData) = 2
    /\ calorieData[1].metadata.id = "id1"
    /\ calorieData[2].metadata.id = ""
    /\ calorieData[2].energy.inKilocalories = 300

\* C8: the filter of every readRecords call has endTime = now and
\* startTime = now - 7 days for one instant now, on both screens.
C8_WindowIsSevenDays ==
    /\ timeRangeFilter # NoFilter =>
          timeRangeFilter.startTime =
              toISOString(parseISO(timeRangeFilter.endTime) - SevenDays)
    /\ page_timeRangeFilter # NoFilter =>
          page_timeRangeFilter.startTime =
              toISOString(parseISO(page_timeRangeFilter.endTime) - SevenDays)

\* C9: the screen shows Ready mode exactly when isInitialized and
\* hasPermissions; in Setup mode it shows one button, Initialize when not
\* initialized and Grant Permissions otherwise, disabled while isLoading.
C9_RenderFollowsState ==
    /\ view.mode \in {"Setup", "Ready"}
    /\ view.mode = "Ready" <=> (isInitialized /\ hasPermissions)
    /\ view.mode = "Setup" =>
          /\ Len(view.buttons) = 1
          /\ view.buttons[1].onPress =
                IF ~isInitialized THEN "initializeHealthConnect" ELSE "requestPermissions"
          /\ view.buttons[1].disabled = isLoading

\* Ready mode is on screen while a fetch is loading.
C9_Witness ==
    /\ view.mode = "Ready"
    /\ isLoading
    /\ calorieData # << >>

\* C10: a rejection of a platform call is turned into text by the operation
\* that made the call (initError for initialize and requestPermission, an
\* alert for readRecords), nothing escapes the operation, and the failed
\* call is not issued again.
C10_RejectionsAreCaughtAtTheCallSite ==
    /\ [](unhandled = {})
    /\ [][ \A i \in 1..Len(pending) : \A e \in Errors :
             LET o1 == [settled |-> "rejected", error |-> e, value |-> FALSE]
                 o2 == [settled |-> "rejected", error |-> e, granted |-> << >>]
                 o3 == [settled |-> "rejected", error |-> e, records |-> None]
             IN /\ initializeResumed(i, o1) =>
                      initError' = InitializationError(e) /\ pending' = RemoveAt(pending, i)
                /\ checkPermissionsResumed(i, o2) =>
                      initError' = PermissionCheckError(e) /\ pending' = RemoveAt(pending, i)
                /\ requestPermissionsResumed(i, o2) =>
                      initError' = PermissionRequestError(e) /\ pending' = RemoveAt(pending, i)
                /\ readSampleDataResumed(i, o3) =>
                      /\ alerts' = Append(alerts, ReadErrorAlert(e))
                      /\ pending' = RemoveAt(pending, i) ]_vars

\* A rejected permission check shows as text on the setup screen.
C10_Witness ==
    /\ initError = PermissionCheckError("E1")
    /\ view.errorBox = initError
    /\ pending = << >>
    /\ ~isLoading

\* C11: if every platform call settles, every started operation finishes
\* (its call leaves flight), and isLoading is false whenever no operation is
\* running.
C11_OperationsFinishAndClearLoading ==
    /\ [](pending = << >> => ~isLoading)
    /\ (pending # << >>) ~> (pending = << >>)

\* The launch run and a later fetch have both finished.
C11_Witness ==
    /\ mounted
    /\ pending = << >>
    /\ ~isLoading
    /\ view.mode = "Ready"
    /\ calorieData # << >>
    /\ alerts = << >>

\* The operation an awaited call belongs to: checkPermissions runs inside
\* initializeHealthConnect.
OperationOf(c) == IF c.op = "checkPermissions" THEN "initializeHealthConnect" ELSE c.op

\* C12: driven through the screen's own controls, no operation has two
\* invocations in flight, and no two platform calls are in flight together.
C12_NoOperationOverlapsItself ==
    /\ \A i, j \in 1..Len(pending) :
          i # j => OperationOf(pending[i]) # OperationOf(pending[j])
    /\ Len(pending) <= 1

\* A retry started from the denial dialog is in flight and the button is
\* disabled meanwhile.
C12_Witness ==
    /\ Len(pending) = 1
    /\ pending[1].op = "requestPermissions"
    /\ isLoading
    /\ Len(view.buttons) = 1
    /\ view.buttons[1].onPress = "requestPermissions"
    /\ view.buttons[1].disabled

\* What the screen lists for a record the platform sent.
ListedRecord(src) ==
    [ startTime |-> src.startTime, endTime |-> src.endTime, energy |-> src.energy,
      metadata |-> [ id |-> IF src.metadata[1].id \in {Null, Undefined}
                            THEN "" ELSE src.metadata[1].id,
                     lastModifiedTime |-> src.metadata[1].lastModifiedTime,
                     dataOrigin |-> src.metadata[1].dataOrigin ] ]

\* C13: with readSampleData also called directly, whichever read settles,
\* at whatever place i in the order of starting and whatever else is still
\* in flight, its result is applied: a success sets calorieData to its
\* normalized records, a failure leaves calorieData as it is.  So the list
\* after two overlapping fetches is that of the success that settled last.
C13_LastResolvedWins ==
    [][ readSettled'.kind # "none"
          => /\ \E i \in 1..Len(pending) :
                   /\ pending[i].call = "readRecords"
                   /\ pending' = RemoveAt(pending, i)
             /\ readSettled'.kind = "succeeded" =>
                   calorieData' = IF readSettled'.records = None THEN << >>
                                  ELSE [ k \in 1..Len(readSettled'.records[1]) |->
                                           ListedRecord(readSettled'.records[1][k]) ]
             /\ readSettled'.kind = "failed" => calorieData' = calorieData ]_vars

\* One of two overlapping fetches has settled and filled the list while the
\* other is still in flight (isLoading is already false).
C13_Witness ==
    /\ Len(pending) = 1
    /\ pending[1].call = "readRecords"
    /\ ~isLoading
    /\ calorieData # << >>

\* C14: a requestPermissions run that is denied opens exactly one
\* retry-or-cancel dialog; Try Again closes it and issues exactly one more
\* requestPermission call, Cancel issues none; Try Again is available on
\* every denial dialog, however many came before; a granted request opens no
\* dialog and puts the screen in Ready mode.
C14_DenialRetryLoop ==
    /\ [][ \A i \in 1..Len(pending) : \A o \in PermissionOutcomes :
             ( o.settled = "resolved" /\ requestPermissionsResumed(i, o) )
             => IF GrantsRead(o.granted)
                THEN alerts' = alerts /\ view'.mode = "Ready" /\ pending' = RemoveAt(pending, i)
                ELSE /\ alerts' = Append(alerts, DenialDialog)
                     /\ pending' = RemoveAt(pending, i) ]_vars
    /\ [][ PressTryAgain
             => /\ pending' = Append(pending, Call("requestPermissions", "requestPermission"))
                /\ alerts' = SubSeq(alerts, 1, Len(alerts) - 1) ]_vars
    /\ [][ ( alerts # << >> /\ Top(alerts) = DenialDialog /\ DismissAlert )
             => pending' = pending ]_vars
    /\ []( ( alerts # << >> /\ Top(alerts) = DenialDialog ) => ENABLED PressTryAgain )

\* A request has been denied and its retry-or-cancel dialog is open.
C14_Witness ==
    /\ alerts = << DenialDialog >>
    /\ ~hasPermissions
    /\ isInitialized
    /\ initError = NoError
    /\ pending = << >>
    /\ ~isLoading

\* C15: up to the first user action the launch has called initialize
\* exactly once, requestPermission at most once and only after initialize
\* returned true, and readRecords never; and once the launch run is over, no
\* platform call is issued by a step that is not a user action.
C15_LaunchRunsSetupOnce ==
    /\ []( /\ launchCalls.initialize = IF mounted THEN 1 ELSE 0
           /\ launchCalls.requestPermission <= 1
           /\ launchCalls.requestPermission = 1 => initializedOnce
           /\ launchCalls.readRecords = 0 )
    /\ [][ ( mounted /\ pending = << >> /\ ~userActed' ) => pending' = << >> ]_vars

\* The launch alone has brought the screen to Ready mode.
C15_Witness ==
    /\ mounted
    /\ ~userActed
    /\ pending = << >>
    /\ launchCalls = [initialize |-> 1, requestPermission |-> 1, readRecords |-> 0]
    /\ view.mode = "Ready"

\* C16: driven through its own controls, the screen never records the
\* permission as granted while the client is not initialized.
C16_PermissionsImplyInitialized ==
    hasPermissions => isInitialized

\* The permission was granted through the Grant Permissions button.
C16_Witness ==
    /\ hasPermissions
    /\ isInitialized
    /\ userActed
    /\ calorieData = << >>
    /\ pending = << >>

\* C17: once isInitialized and hasPermissions are both true, no step makes
\* either false again: the screen stays in Ready mode.
C17_ReadyIsStable ==
    [][ ( isInitialized /\ hasPermissions )
          => ( isInitialized' /\ hasPermissions' /\ view'.mode = "Ready" ) ]_vars

\* The screen is still in Ready mode after a fetch has failed.
C17_Witness ==
    /\ view.mode = "Ready"
    /\ alerts = << ReadErrorAlert("E1") >>
    /\ pending = << >>

\* C18: driven through its own controls, no platform call is in flight
\* while isLoading is false.
C18_NotLoadingMeansNothingInFlight ==
    ~isLoading => pending = << >>

\* isLoading still holds while the launch awaits its last call, the one of
\* checkPermissions.
C18_Witness ==
    /\ isLoading
    /\ isInitialized
    /\ Len(pending) = 1
    /\ pending[1].op = "checkPermissions"

\* C19: calorieData changes only in a step in which a readRecords call
\* settles successfully; and neither the start of readSampleData (guard
\* rejection included) nor its end (failure included) changes isInitialized,
\* hasPermissions or initError.
C19_FrameOfTheOperations ==
    /\ [][ calorieData' # calorieData => readSettled'.kind = "succeeded" ]_vars
    /\ [][ << isInitialized, hasPermissions, initError >>'
               # << isInitialized, hasPermissions, initError >>
             => /\ readSettled'.kind = "none"
                /\ ~ \E t1 \in ClockReadings : \E t2 \in t1 .. (t1 + MaxSkew) :
                        readSampleData(t1, t2) ]_vars

\* A fetch has listed one record and the setup state is as the setup left it.
C19_Witness ==
    /\ Len(calorieData) = 1
    /\ isInitialized
    /\ hasPermissions
    /\ initError = NoError
    /\ pending = << >>
    /\ alerts = << >>

====
